---- MODULE Spec2Model ----
(***************************************************************************)
(* Model of src/src/tree.rs: an arena-indexed tree (Tree<T>, Node<T>), its *)
(* chainable add, its queries and its branch matching.                     *)
(*                                                                         *)
(* Node ids are the 0-based indices of the source; the arena is a TLA+     *)
(* sequence, so node id i is stored at position i + 1.  Option<X> is a     *)
(* sequence of length 0 (None) or 1 (Some(x)).  An out-of-range Vec index  *)
(* is a panic: the call ends with fault = TRUE and the program stops.      *)
(*                                                                         *)
(* The caller is sequential (no concurrency in the source): it makes one   *)
(* call, takes what the call returns, and makes the next call.             *)
(***************************************************************************)
EXTENDS Naturals, Sequences, FiniteSets

\* Bounds of the model.
MaxNodes == 4
MaxBranch == 3
NumValues == 2

\* T (and U): the payload type, here small integers.
Values == 1 .. NumValues

\* The closures handed to matches_branch_predicated: "eq" is the one
\* matches_branch builds, "le" compares a candidate with a stored value.
BranchPredicates == {"le"}

VARIABLES
    nodes,     \* Tree::nodes, the arena
    call,      \* the call that has just returned or panicked, with its arguments;
               \* name "none" while the caller holds the tree and no call is open
    ret,       \* what that call returned (meaningful when fault = FALSE)
    trace,     \* matches_branch_predicated: current_nodes_id at the start of each iteration run
    fault      \* TRUE once a call has panicked on an out-of-range index

vars == <<nodes, call, ret, trace, fault>>

None == <<>>
Some(x) == <<x>>

\* self.nodes[i] is defined exactly for i < self.nodes.len()
InBounds(ns, i) == i < Len(ns)
NodeAt(ns, i) == ns[i + 1]

Call(name, parent_id, value, branch, predicate) ==
    [name |-> name, parent_id |-> parent_id, value |-> value,
     branch |-> branch, predicate |-> predicate]

----------------------------------------------------------------------------
\* Tree::new_empty
new_empty == <<>>

\* Tree::new
new(value) ==
    << [depth_level |-> 0, parent_id |-> None, value |-> value, children_id |-> <<>>] >>

\* Mutants of add: the new node gets its parent's depth; the new index is put
\* at the head of the parent's children_id; the node is pushed before the
\* parent is looked up.
addSameDepth(ns, value, parent_id) ==
    IF ~InBounds(ns, parent_id)
    THEN [fault |-> TRUE, nodes |-> ns]
    ELSE LET node == [depth_level |-> NodeAt(ns, parent_id).depth_level,
                      parent_id |-> Some(parent_id),
                      value |-> value,
                      children_id |-> <<>>]
             pushed == Append(ns, node)
         IN [fault |-> FALSE,
             nodes |-> [pushed EXCEPT ![parent_id + 1].children_id =
                                          Append(@, Len(pushed) - 1)]]

addChildFirst(ns, value, parent_id) ==
    IF ~InBounds(ns, parent_id)
    THEN [fault |-> TRUE, nodes |-> ns]
    ELSE LET node == [depth_level |-> NodeAt(ns, parent_id).depth_level + 1,
                      parent_id |-> Some(parent_id),
                      value |-> value,
                      children_id |-> <<>>]
             pushed == Append(ns, node)
         IN [fault |-> FALSE,
             nodes |-> [pushed EXCEPT ![parent_id + 1].children_id =
                                          <<Len(pushed) - 1>> \o @]]

addPushFirst(ns, value, parent_id) ==
    LET node == [depth_level |-> IF InBounds(ns, parent_id)
                                 THEN NodeAt(ns, parent_id).depth_level + 1 ELSE 0,
                 parent_id |-> Some(parent_id),
                 value |-> value,
                 children_id |-> <<>>]
        pushed == Append(ns, node)
    IN IF ~InBounds(ns, parent_id)
       THEN [fault |-> TRUE, nodes |-> pushed]
       ELSE [fault |-> FALSE,
             nodes |-> [pushed EXCEPT ![parent_id + 1].children_id =
                                          Append(@, Len(pushed) - 1)]]

\* Tree::add.  The parent's depth is read (line 96) before anything is pushed.
add(ns, value, parent_id) ==
    IF ~InBounds(ns, parent_id)
    THEN [fault |-> TRUE, nodes |-> ns]
    ELSE LET node == [depth_level |-> NodeAt(ns, parent_id).depth_level + 1,
                      parent_id |-> Some(parent_id),
                      value |-> value,
                      children_id |-> <<>>]
             pushed == Append(ns, node)
             length_of_nodes == Len(pushed)
         IN [fault |-> FALSE,
             nodes |-> [pushed EXCEPT ![parent_id + 1].children_id =
                                          Append(@, length_of_nodes - 1)]]

\* Tree::get_current_max_depth: the loop over self.nodes, from position i on.
RECURSIVE MaxDepthFrom(_, _, _)
MaxDepthFrom(ns, i, max_depth) ==
    IF i > Len(ns) THEN max_depth
    ELSE MaxDepthFrom(ns, i + 1,
                      IF ns[i].depth_level > max_depth THEN ns[i].depth_level
                                                       ELSE max_depth)

\* Mutant of get_current_max_depth: max_depth is overwritten by every node.
maxDepthOfLast(ns) == IF Len(ns) = 0 THEN 0 ELSE ns[Len(ns)].depth_level

get_current_max_depth(ns) == MaxDepthFrom(ns, 1, 0)

\* Tree::get_children
get_children(ns, parent_id) ==
    IF ~InBounds(ns, parent_id)
    THEN [fault |-> TRUE, ret |-> None]
    ELSE LET ids == NodeAt(ns, parent_id).children_id
         IN IF \E k \in 1 .. Len(ids) : ~InBounds(ns, ids[k])
            THEN [fault |-> TRUE, ret |-> None]
            ELSE [fault |-> FALSE,
                  ret |-> [k \in 1 .. Len(ids) |-> NodeAt(ns, ids[k])]]

\* Tree::matches_children: the loop over the parent's children_id, from position k on.
RECURSIVE MatchChildFrom(_, _, _, _)
MatchChildFrom(ns, ids, k, value) ==
    IF k > Len(ids) THEN [fault |-> FALSE, ret |-> None]
    ELSE IF ~InBounds(ns, ids[k]) THEN [fault |-> TRUE, ret |-> None]
    ELSE IF NodeAt(ns, ids[k]).value = value THEN [fault |-> FALSE, ret |-> Some(ids[k])]
    ELSE MatchChildFrom(ns, ids, k + 1, value)

matches_children(ns, parent_id, value) ==
    IF ~InBounds(ns, parent_id)
    THEN [fault |-> TRUE, ret |-> None]
    ELSE MatchChildFrom(ns, NodeAt(ns, parent_id).children_id, 1, value)

\* The closures find is called with: |&val| val == c
FindHolds(c, val) == val = c

\* Tree::find: the enumerate loop, from index i on.
RECURSIVE FindFrom(_, _, _)
FindFrom(ns, i, c) ==
    IF ~InBounds(ns, i) THEN None
    ELSE IF FindHolds(c, NodeAt(ns, i).value) THEN Some(i)
    ELSE FindFrom(ns, i + 1, c)

find(ns, c) == FindFrom(ns, 0, c)

----------------------------------------------------------------------------
\* The closures matches_branch_predicated is called with, (&U, &T) -> bool.
Holds(predicate, branch_value, tree_value) ==
    IF predicate = "eq" THEN branch_value = tree_value
                        ELSE branch_value <= tree_value

\* Mutants of Verdict: the last position is taken to be branch.len(); a
\* childless node is not returned.
VerdictOffByOne(children_id, id, branch_len) ==
    IF Len(children_id) = 0 THEN "return"
    ELSE IF id = branch_len THEN "return"
    ELSE "break"

VerdictNoLeafReturn(children_id, id, branch_len) ==
    IF id = branch_len - 1 THEN "return" ELSE "break"

\* Lines 188-195: what happens to a frontier member that satisfied the predicate,
\* given its children: it is returned, or the inner loop is left (break).
Verdict(children_id, id, branch_len) ==
    IF Len(children_id) = 0 THEN "return"
    ELSE IF id = branch_len - 1 THEN "return"
    ELSE "break"

\* Mutant of ScanFrontier: the scan does not stop at the first member that
\* satisfies the predicate, the last such member wins.
RECURSIVE ScanFrontierLast(_, _, _, _, _)
ScanFrontierLast(ns, value, predicate, ids, k) ==
    IF k > Len(ids) THEN [kind |-> "exhausted", id |-> 0]
    ELSE IF ~InBounds(ns, ids[k]) THEN [kind |-> "fault", id |-> ids[k]]
    ELSE LET rest == ScanFrontierLast(ns, value, predicate, ids, k + 1)
         IN IF rest.kind # "exhausted" THEN rest
            ELSE IF Holds(predicate, value, NodeAt(ns, ids[k]).value)
                 THEN [kind |-> "match", id |-> ids[k]]
            ELSE rest

\* Lines 182-184: the inner loop over current_nodes_id.clone(), from position k on,
\* up to the first member that satisfies the predicate (every branch of the body
\* after a match leaves the loop).
RECURSIVE ScanFrontier(_, _, _, _, _)
ScanFrontier(ns, value, predicate, ids, k) ==
    IF k > Len(ids) THEN [kind |-> "exhausted", id |-> 0]
    ELSE IF ~InBounds(ns, ids[k]) THEN [kind |-> "fault", id |-> ids[k]]
    ELSE IF Holds(predicate, value, NodeAt(ns, ids[k]).value)
         THEN [kind |-> "match", id |-> ids[k]]
    ELSE ScanFrontier(ns, value, predicate, ids, k + 1)

\* Lines 179-199: the outer loop over branch.iter().enumerate(), from index id on.
\* log collects current_nodes_id as it stands at the start of each iteration.
RECURSIVE BranchLoop(_, _, _, _, _, _)
BranchLoop(ns, branch, predicate, id, current_nodes_id, log) ==
    IF id >= Len(branch)
    THEN [fault |-> FALSE, ret |-> None, trace |-> log]
    ELSE LET log2 == Append(log, current_nodes_id)
             s == ScanFrontier(ns, branch[id + 1], predicate, current_nodes_id, 1)
         IN IF ~(Len(current_nodes_id) > 0)
            THEN BranchLoop(ns, branch, predicate, id + 1, current_nodes_id, log2)
            ELSE IF s.kind = "fault"
            THEN [fault |-> TRUE, ret |-> None, trace |-> log2]
            ELSE IF s.kind = "exhausted"
            THEN BranchLoop(ns, branch, predicate, id + 1, current_nodes_id, log2)
            ELSE LET children_id == NodeAt(ns, s.id).children_id
                 IN IF Verdict(children_id, id, Len(branch)) = "return"
                    THEN [fault |-> FALSE, ret |-> Some(NodeAt(ns, s.id)), trace |-> log2]
                    ELSE BranchLoop(ns, branch, predicate, id + 1, children_id, log2)

\* Tree::matches_branch_predicated
matches_branch_predicated(ns, branch, predicate) ==
    BranchLoop(ns, branch, predicate, 0, <<0>>, <<>>)

\* Tree::matches_branch
matches_branch(ns, branch) == matches_branch_predicated(ns, branch, "eq")

\* The candidate sequences tried: every Vec<U> of at most MaxBranch values.
Branches == UNION {[1 .. n -> Values] : n \in 0 .. MaxBranch}

----------------------------------------------------------------------------
NoCall == Call("none", 0, 0, <<>>, "")

\* The caller holds the tree and no call is open.
Ready == call = NoCall /\ ~fault

\* let tree = Tree::new_empty();  or  let tree = Tree::new(value);
Init ==
    /\ \/ nodes = new_empty
       \/ \E v \in Values : nodes = new(v)
    /\ call = NoCall
    /\ ret = None
    /\ trace = <<>>
    /\ fault = FALSE

\* tree.add(value, parent_id); parent ids from Len(nodes) on are out of range
Add(value, parent_id) ==
    /\ Ready
    /\ InBounds(nodes, parent_id) => Len(nodes) < MaxNodes
    /\ LET r == add(nodes, value, parent_id)
       IN /\ nodes' = r.nodes
          /\ fault' = r.fault
    /\ call' = Call("add", parent_id, value, <<>>, "")
    /\ ret' = None
    /\ trace' = <<>>

GetCurrentMaxDepth ==
    /\ Ready
    /\ call' = Call("get_current_max_depth", 0, 0, <<>>, "")
    /\ ret' = get_current_max_depth(nodes)
    /\ trace' = <<>>
    /\ UNCHANGED <<nodes, fault>>

GetChildren(parent_id) ==
    /\ Ready
    /\ LET r == get_children(nodes, parent_id)
       IN /\ ret' = r.ret
          /\ fault' = r.fault
    /\ call' = Call("get_children", parent_id, 0, <<>>, "")
    /\ trace' = <<>>
    /\ UNCHANGED nodes

MatchesChildren(parent_id, value) ==
    /\ Ready
    /\ LET r == matches_children(nodes, parent_id, value)
       IN /\ ret' = r.ret
          /\ fault' = r.fault
    /\ call' = Call("matches_children", parent_id, value, <<>>, "")
    /\ trace' = <<>>
    /\ UNCHANGED nodes

Find(c) ==
    /\ Ready
    /\ call' = Call("find", 0, c, <<>>, "")
    /\ ret' = find(nodes, c)
    /\ trace' = <<>>
    /\ UNCHANGED <<nodes, fault>>

MatchesBranch(branch) ==
    /\ Ready
    /\ LET r == matches_branch(nodes, branch)
       IN /\ ret' = r.ret
          /\ fault' = r.fault
          /\ trace' = r.trace
    /\ call' = Call("matches_branch", 0, 0, branch, "eq")
    /\ UNCHANGED nodes

MatchesBranchPredicated(branch, predicate) ==
    /\ Ready
    /\ LET r == matches_branch_predicated(nodes, branch, predicate)
       IN /\ ret' = r.ret
          /\ fault' = r.fault
          /\ trace' = r.trace
    /\ call' = Call("matches_branch_predicated", 0, 0, branch, predicate)
    /\ UNCHANGED nodes

\* The caller takes what the call returned (let tree = tree.add(..);
\* let node = searched_value.unwrap(); ...) and is ready for its next call.
\* A panicked call returns nothing: the program has stopped.
Take ==
    /\ call # NoCall
    /\ ~fault
    /\ call' = NoCall
    /\ ret' = None
    /\ trace' = <<>>
    /\ UNCHANGED <<nodes, fault>>

Next ==
    \/ \E v \in Values, p \in 0 .. MaxNodes : Add(v, p)
    \/ GetCurrentMaxDepth
    \/ \E p \in 0 .. MaxNodes : GetChildren(p)
    \/ \E p \in 0 .. MaxNodes, v \in Values : MatchesChildren(p, v)
    \/ \E c \in Values : Find(c)
    \/ \E b \in Branches : MatchesBranch(b)
    \/ \E b \in Branches, q \in BranchPredicates : MatchesBranchPredicated(b, q)
    \/ Take

Spec == Init /\ [][Next]_vars

----------------------------------------------------------------------------
\* Vocabulary of the properties, read off the arena and not off the operations.

Ids(ns) == {i \in 0 .. Len(ns) : i < Len(ns)}
IsLeaf(ns, i) == NodeAt(ns, i).children_id = <<>>
HasParent(ns, i) == NodeAt(ns, i).parent_id # None
Parent(ns, i) == NodeAt(ns, i).parent_id[1]

\* the j-th smallest member of a set of numbers, and the set in increasing order
Nth(S, j) == CHOOSE x \in S : Cardinality({y \in S : y < x}) = j - 1
SortedSeq(S) == [k \in 1 .. Cardinality(S) |-> Nth(S, k)]

\* number of parent links from node i up to the root
RECURSIVE ChainLen(_, _)
ChainLen(ns, i) == IF HasParent(ns, i) THEN 1 + ChainLen(ns, Parent(ns, i)) ELSE 0

\* the node ids from the root down to node i, following parent links
RECURSIVE PathTo(_, _)
PathTo(ns, i) == IF HasParent(ns, i) THEN Append(PathTo(ns, Parent(ns, i)), i) ELSE <<i>>

PathValues(ns, i) == [k \in 1 .. Len(PathTo(ns, i)) |-> NodeAt(ns, PathTo(ns, i)[k]).value]

\* path starts at the root and each next node is listed among the children of the one before
IsRootPath(ns, path) ==
    /\ path[1] = 0
    /\ \A k \in 1 .. Len(path) - 1 :
           \E c \in 1 .. Len(NodeAt(ns, path[k]).children_id) :
               NodeAt(ns, path[k]).children_id[c] = path[k + 1]

\* the candidates match the path position by position
MatchesPath(ns, branch, predicate, path) ==
    /\ Len(path) = Len(branch)
    /\ \A k \in 1 .. Len(path) : Holds(predicate, branch[k], NodeAt(ns, path[k]).value)

\* every node of the path below the root is the first child of its parent, in
\* the parent's child order, that satisfies the predicate with its candidate
LeftmostPath(ns, branch, predicate, path) ==
    \A k \in 2 .. Len(path) :
        LET sibs == NodeAt(ns, path[k - 1]).children_id
        IN \A c \in 1 .. Len(sibs) :
               sibs[c] = path[k] =>
                   \A b \in 1 .. c - 1 : ~Holds(predicate, branch[k], NodeAt(ns, sibs[b]).value)

\* the path's values match the candidates at the positions of S, in order
MatchesAt(ns, branch, predicate, path, S) ==
    /\ Cardinality(S) = Len(path)
    /\ \A j \in 1 .. Len(path) :
           Holds(predicate, branch[Nth(S, j)], NodeAt(ns, path[j]).value)

IsBranchCall == call.name \in {"matches_branch", "matches_branch_predicated"}

----------------------------------------------------------------------------
\* C5: from new(root) and adds with valid parents, node 0 is the root (no
\* parent, depth 0) and every node i > 0 has parent Some(p) with p < i and
\* depth = depth of p + 1.
C5_IndexAndDepth ==
    Len(nodes) > 0 =>
        /\ NodeAt(nodes, 0).parent_id = None
        /\ NodeAt(nodes, 0).depth_level = 0
        /\ \A i \in Ids(nodes) \ {0} :
               /\ Len(NodeAt(nodes, i).parent_id) = 1
               /\ Parent(nodes, i) < i
               /\ NodeAt(nodes, i).depth_level =
                      NodeAt(nodes, Parent(nodes, i)).depth_level + 1

C5_Witness ==
    /\ call.name = "add"
    /\ ~fault
    /\ Len(nodes) = 4
    /\ NodeAt(nodes, 3).depth_level = 2
    /\ NodeAt(nodes, 3).parent_id = Some(1)

\* C6: the children list of every node p is exactly the indices whose parent
\* is Some(p), in increasing index order (the order of the adds), so without
\* duplicates and without p; get_children(p) returns those nodes in that order.
C6_ChildrenInAddOrder ==
    /\ Len(nodes) > 0 =>
           \A p \in Ids(nodes) :
               LET kids == {j \in Ids(nodes) : NodeAt(nodes, j).parent_id = Some(p)}
               IN /\ NodeAt(nodes, p).children_id = SortedSeq(kids)
                  /\ p \notin kids
    /\ (call.name = "get_children" /\ ~fault) =>
           LET kids == {j \in Ids(nodes) : NodeAt(nodes, j).parent_id = Some(call.parent_id)}
           IN ret = [k \in 1 .. Cardinality(kids) |-> NodeAt(nodes, Nth(kids, k))]

C6_Witness ==
    /\ call.name = "get_children"
    /\ ~fault
    /\ Len(ret) = 2
    /\ ret[1].value # ret[2].value
    /\ Len(nodes) = 4

\* C7: get_current_max_depth() is the number of parent links of the longest
\* parent chain from a node up to the root, and 0 on the tree of new_empty().
C7_MaxDepth ==
    call.name = "get_current_max_depth" =>
        IF nodes = <<>> THEN ret = 0
        ELSE /\ \E i \in Ids(nodes) : ret = ChainLen(nodes, i)
             /\ \A i \in Ids(nodes) : ret >= ChainLen(nodes, i)

C7_Witness ==
    /\ call.name = "get_current_max_depth"
    /\ ret = 2
    /\ Len(nodes) = 4
    /\ NodeAt(nodes, 3).depth_level = 1

\* C8: add, get_children and matches_children called with a parent_id that is
\* not an index of the arena end in a bounds fault and leave the arena as it was.
C8_FaultWithoutMutation ==
    [][ (/\ call'.name \in {"add", "get_children", "matches_children"}
         /\ ~InBounds(nodes, call'.parent_id))
        => (fault' /\ nodes' = nodes) ]_vars

C8_Witness ==
    /\ fault
    /\ call.name = "add"
    /\ Len(nodes) = 2
    /\ call.parent_id = 3

\* C9: find, matches_branch and matches_branch_predicated never end in a
\* bounds fault, on any tree, the empty one included.
C9_NeverFaults ==
    call.name \in {"find", "matches_branch", "matches_branch_predicated"} => ~fault

\* C3: on a non-empty tree, a candidate sequence whose first element does not
\* satisfy the predicate against the root's value is answered None.
C3_FirstMustMatchRoot ==
    (/\ IsBranchCall
     /\ Len(nodes) > 0
     /\ Len(call.branch) > 0
     /\ ~Holds(call.predicate, call.branch[1], NodeAt(nodes, 0).value))
    => ret = None

\* C4: on a non-empty tree, a candidate sequence longer than the longest
\* root-to-leaf path (more than max depth + 1 elements) is answered None.
C4_OverLongIsNone ==
    (/\ IsBranchCall
     /\ Len(nodes) > 0
     /\ \A i \in Ids(nodes) : Len(call.branch) > ChainLen(nodes, i) + 1)
    => ret = None

C2_RoundTripAnyNode ==
    (call.name = "matches_branch" /\ Len(nodes) > 0) =>
        \A n \in Ids(nodes) :
            call.branch = PathValues(nodes, n) =>
                /\ ret # None
                /\ ret[1].value = NodeAt(nodes, n).value

\* C2 amended: matches_branch with the values on the path from the root to n
\* returns (a copy of) n, provided every node of that path is the first of its
\* parent's children to carry its value.
C2_RoundTripFirstOfEqualSiblings ==
    (call.name = "matches_branch" /\ Len(nodes) > 0) =>
        \A n \in Ids(nodes) :
            (/\ call.branch = PathValues(nodes, n)
             /\ LeftmostPath(nodes, PathValues(nodes, n), "eq", PathTo(nodes, n)))
            => ret = Some(NodeAt(nodes, n))

\* an internal node at depth 1 that has an earlier sibling (of another value)
C2_Witness ==
    /\ call.name = "matches_branch"
    /\ Len(nodes) = 4
    /\ call.branch = PathValues(nodes, 2)
    /\ NodeAt(nodes, 2).parent_id = Some(0)
    /\ NodeAt(nodes, 1).parent_id = Some(0)
    /\ NodeAt(nodes, 3).parent_id = Some(2)
    /\ ret = Some(NodeAt(nodes, 2))

\* C10: a returned node n of depth d lies below the root on a path whose d + 1
\* nodes satisfy the predicate with candidates at strictly increasing positions,
\* and n is a leaf or matched the last candidate; the frontier is never empty
\* at the start of an iteration; an iteration in which no frontier member
\* matches leaves the frontier as it was.
C10_SkipOnMismatch ==
    IsBranchCall =>
        /\ (Len(nodes) > 0 /\ ret # None) =>
               \E n \in Ids(nodes) :
                   /\ ret = Some(NodeAt(nodes, n))
                   /\ \E S \in SUBSET (1 .. Len(call.branch)) :
                          /\ MatchesAt(nodes, call.branch, call.predicate, PathTo(nodes, n), S)
                          /\ IsLeaf(nodes, n) \/ Len(call.branch) \in S
        /\ \A i \in 1 .. Len(trace) : trace[i] # <<>>
        /\ Len(nodes) > 0 =>
               \A i \in 1 .. Len(trace) - 1 :
                   (\A m \in 1 .. Len(trace[i]) :
                        ~Holds(call.predicate, call.branch[i], NodeAt(nodes, trace[i][m]).value))
                   => trace[i + 1] = trace[i]

\* the first candidate is skipped at the root, a later one at the root's children
C10_Witness ==
    /\ call.name = "matches_branch"
    /\ Len(call.branch) = 3
    /\ Len(trace) = 3
    /\ trace[1] = <<0>>
    /\ trace[2] = <<0>>
    /\ trace[3] # <<0>>
    /\ ret # None
    /\ ret[1].depth_level = 1

====
